---- MODULE Spec2Model ----
(***************************************************************************)
(* Model of repysensors.py: the lock-guarded, shape-transforming           *)
(* forwarding calls between the sandbox and the native sensor bindings.    *)
(*                                                                         *)
(* Caller threads invoke the public functions of the module.  Every step   *)
(* of a call (lock.acquire, the native call, lock.release, the reshaping   *)
(* or scrubbing of the result, the return) is one action.  The pure        *)
(* helpers (the timestamp normalizer, the shape adapters, the text         *)
(* scrubber) are operators, used by those actions and exercised on their   *)
(* own by the specifications at the end of the module.                     *)
(***************************************************************************)
EXTENDS Integers, Sequences, FiniteSets

(* ---------------------------------------------------------------------- *)
(* Bounds of the model                                                     *)
(* ---------------------------------------------------------------------- *)

\* number of concurrent caller threads
NThreads == 2

\* raw sensor timestamps (milliseconds) range over 0 .. MaxMillis
MaxMillis == 10

\* a value given to the text scrubber is made of at most MaxNodes values (itself,
\* its elements, their elements and so on), so it holds at most MaxNodes - 1
\* elements and is nested at most MaxNodes - 1 deep
MaxNodes == 4

(* ---------------------------------------------------------------------- *)
(* Program constants                                                       *)
(* ---------------------------------------------------------------------- *)

MAX_VIBRATION_DURATION == 10

\* width of the significand of a Python float (IEEE-754 binary64)
MantBits == 53

\* Python's None, and a value v that is not None.  Results are kept as
\* sequences of length at most one so that None compares with every value.
None == << >>
Some(v) == << v >>

Threads == 1 .. NThreads

\* locklist = [sensorlock, outputlock, medialock, vibratelock]
locklist == << "sensorlock", "outputlock", "medialock", "vibratelock" >>
Locks == { locklist[i] : i \in 1 .. Len(locklist) }

(* ---------------------------------------------------------------------- *)
(* Python floats (IEEE-754 binary64, round to nearest, ties to even)       *)
(*                                                                         *)
(* A float is [sign, exp, mant], mant being the 53-bit significand, and    *)
(* its value is (-1)^sign * mant * 2^(exp-52), so 2^exp <= |value| <       *)
(* 2^(exp+1).  Zero has the significand 0.                                 *)
(* The significand and the intermediate results are wider than a machine   *)
(* integer: a wide natural is the sequence of its digits in base 2^15,     *)
(* least significant first, without leading zero digits.                   *)
(* ---------------------------------------------------------------------- *)

Base == 2 ^ 15

Zeros(k) == [i \in 1 .. k |-> 0]

Digit(x, i) == IF i <= Len(x) THEN x[i] ELSE 0

\* x without its leading (last) zero digits
BigNorm(x) ==
  IF \A i \in 1 .. Len(x) : x[i] = 0 THEN << >>
  ELSE SubSeq(x, 1, CHOOSE i \in 1 .. Len(x) : x[i] # 0 /\ \A j \in i + 1 .. Len(x) : x[j] = 0)

\* the wide natural equal to the machine integer n >= 0
BigOf(n) == BigNorm(<< n % Base, (n \div Base) % Base, n \div (Base * Base) >>)

\* x + y + c, from digit i on
RECURSIVE BigAddFrom(_, _, _, _)
BigAddFrom(x, y, i, c) ==
  IF i > Len(x) /\ i > Len(y) THEN (IF c = 0 THEN << >> ELSE << c >>)
  ELSE LET s == Digit(x, i) + Digit(y, i) + c
       IN  << s % Base >> \o BigAddFrom(x, y, i + 1, s \div Base)

BigAdd(x, y) == BigAddFrom(x, y, 1, 0)

\* x - y - c for x >= y + c, from digit i on
RECURSIVE BigSubFrom(_, _, _, _)
BigSubFrom(x, y, i, c) ==
  IF i > Len(x) THEN << >>
  ELSE LET d == Digit(x, i) - Digit(y, i) - c
       IN  << d % Base >> \o BigSubFrom(x, y, i + 1, IF d < 0 THEN 1 ELSE 0)

BigSub(x, y) == BigNorm(BigSubFrom(x, y, 1, 0))

BigLess(x, y) ==
  \/ Len(x) < Len(y)
  \/ /\ Len(x) = Len(y)
     /\ \E i \in 1 .. Len(x) : x[i] < y[i] /\ \A j \in i + 1 .. Len(x) : x[j] = y[j]

\* x * m + c for 0 <= m <= Base, from digit i on
RECURSIVE BigMulFrom(_, _, _, _)
BigMulFrom(x, m, i, c) ==
  IF i > Len(x) THEN (IF c = 0 THEN << >> ELSE << c >>)
  ELSE LET p == x[i] * m + c
       IN  << p % Base >> \o BigMulFrom(x, m, i + 1, p \div Base)

\* the digits i, i-1 .. 1 of x divided by d (0 < d <= Base), with r carried in:
\* the quotient digits and the remainder
RECURSIVE BigDivFrom(_, _, _, _)
BigDivFrom(x, d, i, r) ==
  IF i = 0 THEN [quot |-> << >>, rem |-> r]
  ELSE LET n    == r * Base + x[i]
           rest == BigDivFrom(x, d, i - 1, n % d)
       IN  [quot |-> Append(rest.quot, n \div d), rem |-> rest.rem]

BigDiv(x, d) ==
  LET r == BigDivFrom(x, d, Len(x), 0) IN [quot |-> BigNorm(r.quot), rem |-> r.rem]

\* x * 2^s
BigShl(x, s) ==
  IF x = << >> THEN x ELSE Zeros(s \div 15) \o BigMulFrom(x, 2 ^ (s % 15), 1, 0)

\* x \div 2^s, and whether a digit 1 was shifted out
BigShr(x, s) ==
  LET whole == s \div 15
      d     == BigDiv(SubSeq(x, whole + 1, Len(x)), 2 ^ (s % 15))
  IN  [quot |-> d.quot,
       sticky |-> d.rem # 0 \/ \E i \in 1 .. whole : Digit(x, i) # 0]

\* the number of binary digits of x
BigBitLen(x) ==
  IF x = << >> THEN 0
  ELSE 15 * (Len(x) - 1) +
       (CHOOSE l \in 1 .. 15 : 2 ^ (l - 1) <= x[Len(x)] /\ x[Len(x)] < 2 ^ l)

BigOdd(x) == Digit(x, 1) % 2 = 1

FloatZero == [sign |-> 0, exp |-> 0, mant |-> << >>]

\* The float nearest to (x + f) * 2^e, for a wide natural x # 0 and a fraction
\* 0 <= f < 1 that is not 0 iff `sticky` (x then has more than MantBits digits):
\* round to nearest, ties to even.
FloatRound(sign, x, sticky, e) ==
  LET len == BigBitLen(x)
  IN  IF len <= MantBits
      THEN [sign |-> sign, exp |-> e + len - 1, mant |-> BigShl(x, MantBits - len)]
      ELSE LET h     == BigShr(x, len - MantBits - 1)
               guard == BigOdd(h.quot)
               m     == BigDiv(h.quot, 2).quot
               up    == guard /\ (h.sticky \/ sticky \/ BigOdd(m))
               inc   == IF up THEN BigAdd(m, BigOf(1)) ELSE m
           IN  IF BigBitLen(inc) > MantBits
               THEN [sign |-> sign, exp |-> e + len, mant |-> BigDiv(inc, 2).quot]
               ELSE [sign |-> sign, exp |-> e + len - 1, mant |-> inc]

\* float(n) / float(den) for machine integers n and 0 < den <= 2^15: the float
\* nearest to the quotient.  |n| * 2^70 \div den has more than MantBits digits.
FloatDiv(n, den) ==
  IF n = 0 THEN FloatZero
  ELSE LET q == BigDiv(BigShl(BigOf(IF n < 0 THEN 0 - n ELSE n), 70), den)
       IN  FloatRound(IF n < 0 THEN 1 ELSE 0, q.quot, q.rem # 0, 0 - 70)

FloatNeg(x) == IF x = FloatZero THEN x ELSE [x EXCEPT !.sign = 1 - x.sign]

\* x + y: the exact sum, rounded
FloatAdd(x, y) ==
  IF x = FloatZero THEN y
  ELSE IF y = FloatZero THEN x
  ELSE LET emin == IF x.exp < y.exp THEN x.exp ELSE y.exp
           X    == BigShl(x.mant, x.exp - emin)
           Y    == BigShl(y.mant, y.exp - emin)
           sum  == IF x.sign = y.sign THEN BigAdd(X, Y)
                   ELSE IF BigLess(X, Y) THEN BigSub(Y, X) ELSE BigSub(X, Y)
           sign == IF x.sign = y.sign THEN x.sign
                   ELSE IF BigLess(X, Y) THEN y.sign ELSE x.sign
       IN  IF sum = << >> THEN FloatZero
           ELSE FloatRound(sign, sum, FALSE, emin - (MantBits - 1))

\* x - y
FloatSub(x, y) == FloatAdd(x, FloatNeg(y))

(* ---------------------------------------------------------------------- *)
(* State                                                                   *)
(* ---------------------------------------------------------------------- *)

VARIABLES
  sensor_zulu_time, \* the event time sampled when the module is loaded
  lock,             \* lock[l]: whether the lock l is locked
  owner,            \* owner[l]: a history variable, which the specification
                    \* SpecOwned keeps: the thread whose lock.acquire() locked
                    \* l, 0 when l is unlocked (a Lock does not record it)
  held,             \* held[t]: the locks the current call of thread t acquired and
                    \* has not released
  pc,               \* pc[t]: where thread t is in its call
  fn,               \* fn[t]: the public function thread t is calling
  args,             \* args[t]: the arguments thread t passed to it
  ret,              \* ret[t]: what the native call returned to thread t
  result,           \* result[t]: what the public function returns to its caller
  err,              \* err[t]: the exception that left the public function
  ncalls,           \* ncalls[t]: native calls made so far by the current call of t
  nargs,            \* nargs[t]: the arguments the native call of t was made with
  pin,              \* input of the pure function under test
  pout,             \* its output
  pstage            \* how far the pure function under test has got

vars == << sensor_zulu_time, lock, owner, held, pc, fn, args, ret, result, err, ncalls, nargs,
           pin, pout, pstage >>

callvars == << lock, owner, held, pc, fn, args, ret, result, err, ncalls, nargs >>

purevars == << pin, pout, pstage >>

\* The outcome of a computation: a value, or an exception raised.
Ok(v) == [exc |-> "none", val |-> v]
Raise(e) == [exc |-> e, val |-> None]

(* ---------------------------------------------------------------------- *)
(* Timestamp normalizer                                                    *)
(* ---------------------------------------------------------------------- *)

\* a normalizer that forgets to rebase the event time
normalize_not_rebased(t) == FloatDiv(t, 1000)

\* return (t - sensor_zulu_time) / 1000.
normalize_sensor_event_time(t) == FloatDiv(t - sensor_zulu_time, 1000)

(* ---------------------------------------------------------------------- *)
(* Shape adapters.  Each takes what the wrapped sensor function returned   *)
(* (None, or Some(tuple)) and gives the outcome of the refined function.   *)
(* Unpacking a tuple of the wrong length raises ValueError.                *)
(* ---------------------------------------------------------------------- *)

\* an adapter that keeps the epoch field and drops the last reading
refine_keep_epoch(returned_tuple, n) ==
  IF returned_tuple # None
  THEN LET tup == returned_tuple[1]
       IN  IF Len(tup) = n + 2
           THEN Ok(Some(<< normalize_sensor_event_time(tup[2]) >> \o SubSeq(tup, 1, n)))
           ELSE Raise("ValueError")
  ELSE Ok(None)

\* _, t, x1 .. xn = returned_tuple; return [normalize_sensor_event_time(t), x1 .. xn]
refine(returned_tuple, n) ==
  IF returned_tuple # None
  THEN LET tup == returned_tuple[1]
       IN  IF Len(tup) = n + 2
           THEN Ok(Some(<< normalize_sensor_event_time(tup[2]) >> \o SubSeq(tup, 3, n + 2)))
           ELSE Raise("ValueError")
  ELSE Ok(None)

refine_1d(returned_tuple) == refine(returned_tuple, 1)
refine_3d(returned_tuple) == refine(returned_tuple, 3)
refine_4d(returned_tuple) == refine(returned_tuple, 4)
refine_5d(returned_tuple) == refine(returned_tuple, 5)
refine_6d(returned_tuple) == refine(returned_tuple, 6)

\* a get_light that reports the illumination 0 when the sensor has no data
light_zero_for_none(return_value) ==
  IF return_value # None
  THEN LET tup == return_value[1]
       IN  IF Len(tup) = 5 THEN Ok(Some(tup[3])) ELSE Raise("ValueError")
  ELSE Ok(Some(0))

\* get_light, after the lock is released: _, _, illumination, _, _ = return_value
light_illumination(return_value) ==
  IF return_value # None
  THEN LET tup == return_value[1]
       IN  IF Len(tup) = 5 THEN Ok(Some(tup[3])) ELSE Raise("ValueError")
  ELSE Ok(None)

(* ---------------------------------------------------------------------- *)
(* Text scrubber                                                           *)
(*                                                                         *)
(* A Python value is a record [kind, chars, items, pairs]:                 *)
(*   kind "unicode": a unicode string, chars its code points;              *)
(*   kind "str":     a byte string, chars its bytes;                       *)
(*   kind "list":    a list, items its elements in order;                  *)
(*   kind "dict":    a dict, pairs its <<key, value>> items (keys differ); *)
(*   kind "other":   a number, a boolean or None, chars = <<it>>.          *)
(* dict.items() lists the items in an order the program does not control,  *)
(* so a scrubbing function gives the set of outcomes it may have.          *)
(* ---------------------------------------------------------------------- *)

PyUnicode(c) == [kind |-> "unicode", chars |-> c, items |-> << >>, pairs |-> {}]
PyStr(c) == [kind |-> "str", chars |-> c, items |-> << >>, pairs |-> {}]
PyList(s) == [kind |-> "list", chars |-> << >>, items |-> s, pairs |-> {}]
PyDict(p) == [kind |-> "dict", chars |-> << >>, items |-> << >>, pairs |-> p]
PyOther(n) == [kind |-> "other", chars |-> << n >>, items |-> << >>, pairs |-> {}]

IsAscii(c) == c < 128

\* the code of "?"
QuestionMark == 63

\* an encoding that leaves out the characters outside ASCII:
\* source_string.encode("ascii", "ignore")
scrub_string_ignoring(source_string) ==
  IF source_string.kind = "unicode"
  THEN Ok(PyStr(SelectSeq(source_string.chars, IsAscii)))
  ELSE IF source_string.kind # "str" THEN Raise("AttributeError")
  ELSE IF \A i \in 1 .. Len(source_string.chars) : IsAscii(source_string.chars[i])
       THEN Ok(source_string)
       ELSE Raise("UnicodeDecodeError")

\* source_string.encode("ascii", "replace"): a unicode string is encoded with "?"
\* for each character outside ASCII; a byte string is first decoded as ASCII,
\* which raises UnicodeDecodeError on a byte outside ASCII; a value that is not
\* a string has no encode method.
_scrub_string(source_string) ==
  IF source_string.kind = "unicode"
  THEN Ok(PyStr([i \in 1 .. Len(source_string.chars) |->
                   IF IsAscii(source_string.chars[i]) THEN source_string.chars[i]
                   ELSE QuestionMark]))
  ELSE IF source_string.kind # "str" THEN Raise("AttributeError")
  ELSE IF \A i \in 1 .. Len(source_string.chars) : IsAscii(source_string.chars[i])
       THEN Ok(source_string)
       ELSE Raise("UnicodeDecodeError")

Raised(outcomes) == { o \in outcomes : o.exc # "none" }
Returned(outcomes) == { o \in outcomes : o.exc = "none" }

RECURSIVE scrub_unicode_from(_)

\* a list scrubber that puts each clean element in front of the ones before it
\* (clean_list.insert(0, ...)), so that the clean list comes out reversed
scrub_list_prepending(source_list) ==
  LET n    == Len(source_list.items)
      outs == [i \in 1 .. n |-> scrub_unicode_from(source_list.items[i])]
      all  == UNION { outs[i] : i \in 1 .. n }
      reached(i) == \A j \in 1 .. i - 1 : Returned(outs[j]) # {}
  IN  UNION { IF reached(i) THEN Raised(outs[i]) ELSE {} : i \in 1 .. n } \cup
      { Ok(PyList([i \in 1 .. n |-> c[n + 1 - i].val])) :
          c \in { f \in [1 .. n -> Returned(all)] : \A i \in 1 .. n : f[i] \in outs[i] } }

\* for value in source_list: clean_list.append(scrub_unicode_from(value))
\* The first element whose scrubbing raises ends the loop with its exception.
_scrub_list(source_list) ==
  LET n    == Len(source_list.items)
      outs == [i \in 1 .. n |-> scrub_unicode_from(source_list.items[i])]
      all  == UNION { outs[i] : i \in 1 .. n }
      reached(i) == \A j \in 1 .. i - 1 : Returned(outs[j]) # {}
  IN  UNION { IF reached(i) THEN Raised(outs[i]) ELSE {} : i \in 1 .. n } \cup
      { Ok(PyList([i \in 1 .. n |-> c[i].val])) :
          c \in { f \in [1 .. n -> Returned(all)] : \A i \in 1 .. n : f[i] \in outs[i] } }

\* for key, value in source_dict.items():
\*   clean_dict[_scrub_string(key)] = scrub_unicode_from(value)
\* items() lists the items in any order: any item may be the first whose key or
\* value raises, and of the items whose keys are scrubbed to the same clean key,
\* the one listed last is the one clean_dict keeps.
_scrub_dict(source_dict) ==
  LET items    == source_dict.pairs
      keyout   == [p \in items |-> _scrub_string(p[1])]
      valouts  == [p \in items |-> scrub_unicode_from(p[2])]
      raised   == UNION { IF keyout[p].exc # "none" THEN { keyout[p] }
                          ELSE Raised(valouts[p]) : p \in items }
      complete == \A p \in items : keyout[p].exc = "none" /\ Returned(valouts[p]) # {}
      keys     == { keyout[p].val : p \in items }
      last     == { w \in [keys -> items] : \A k \in keys : keyout[w[k]].val = k }
      vals     == Returned(UNION { valouts[p] : p \in items })
  IN  raised \cup
      IF complete
      THEN { Ok(PyDict({ << k, c[k].val >> : k \in keys })) :
               c \in UNION { { f \in [keys -> vals] : \A k \in keys : f[k] \in valouts[w[k]] } :
                             w \in last } }
      ELSE {}

\* the outcomes of scrub_unicode_from(value)
scrub_unicode_from(value) ==
  IF value.kind = "unicode" THEN { _scrub_string(value) }
  ELSE IF value.kind = "list" THEN _scrub_list(value)
  ELSE IF value.kind = "dict" THEN _scrub_dict(value)
  ELSE { Ok(value) }

\* get_wifi_connection_info and get_network_info, after the lock is released:
\* scrub_unicode_from(return_value) if return_value is not None, else None
scrub_if_not_none(return_value) ==
  IF return_value # None
  THEN { IF o.exc = "none" THEN Ok(Some(o.val)) ELSE o :
           o \in scrub_unicode_from(return_value[1]) }
  ELSE { Ok(None) }

(* ---------------------------------------------------------------------- *)
(* Bound call table: the public functions, each with the native binding    *)
(* it calls, the lock it takes and what it does to the native result:      *)
(*   "raw"       lock_wrap(native): the native result as it is;            *)
(*   "refine_Nd" refine_Nd(sensorlock_wrap(native));                       *)
(*   "scrub"     get_wifi_connection_info, get_network_info;               *)
(*   "light"     get_light;                                                *)
(*   "vibrate"   vibrate.                                                  *)
(* ---------------------------------------------------------------------- *)

Bound(module, native, lck, adapter) ==
  [module |-> module, native |-> native, lock |-> lck, adapter |-> adapter]

\* sensorlock_wrap = wrap_with(sensorlock), medialock_wrap = wrap_with(medialock),
\* outputlock_wrap = wrap_with(outputlock)
sensorlock_wrap(module, native) == Bound(module, native, "sensorlock", "raw")
medialock_wrap(module, native) == Bound(module, native, "medialock", "raw")
outputlock_wrap(module, native) == Bound(module, native, "outputlock", "raw")

Refined(adapter, bound) == [bound EXCEPT !.adapter = adapter]

BoundCallTable ==
  [get_bluetooth_info |-> sensorlock_wrap("miscinfo", "get_bluetooth_info"),
   get_bluetooth_scan_info |-> sensorlock_wrap("miscinfo", "get_bluetooth_scan_info"),
   is_wifi_enabled |-> sensorlock_wrap("miscinfo", "is_wifi_enabled"),
   get_wifi_state |-> sensorlock_wrap("miscinfo", "get_wifi_state"),
   get_wifi_scan_info |-> sensorlock_wrap("miscinfo", "get_wifi_scan_info"),
   get_cellular_provider_info |-> sensorlock_wrap("miscinfo", "get_cellular_provider_info"),
   get_cell_info |-> sensorlock_wrap("miscinfo", "get_cell_info"),
   get_sim_info |-> sensorlock_wrap("miscinfo", "get_sim_info"),
   get_phone_info |-> sensorlock_wrap("miscinfo", "get_phone_info"),
   get_mode_settings |-> sensorlock_wrap("miscinfo", "get_mode_settings"),
   get_display_info |-> sensorlock_wrap("miscinfo", "get_display_info"),
   get_volume_info |-> sensorlock_wrap("miscinfo", "get_volume_info"),
   get_battery_info |-> sensorlock_wrap("miscinfo", "get_battery_info"),
   get_wifi_connection_info |->
     Bound("miscinfo", "get_wifi_connection_info", "sensorlock", "scrub"),
   get_network_info |-> Bound("miscinfo", "get_network_info", "sensorlock", "scrub"),
   get_sensor_list |-> sensorlock_wrap("sensor", "get_sensor_list"),
   get_acceleration |->
     Refined("refine_3d", sensorlock_wrap("sensor", "get_acceleration")),
   get_ambient_temperature |->
     Refined("refine_1d", sensorlock_wrap("sensor", "get_ambient_temperature")),
   get_game_rotation_vector |->
     Refined("refine_4d", sensorlock_wrap("sensor", "get_game_rotation_vector")),
   get_geomagnetic_rotation_vector |->
     Refined("refine_5d", sensorlock_wrap("sensor", "get_geomagnetic_rotation_vector")),
   get_gravity |-> Refined("refine_3d", sensorlock_wrap("sensor", "get_gravity")),
   get_gyroscope |-> Refined("refine_3d", sensorlock_wrap("sensor", "get_gyroscope")),
   get_gyroscope_uncalibrated |->
     Refined("refine_6d", sensorlock_wrap("sensor", "get_gyroscope_uncalibrated")),
   get_heart_rate |-> Refined("refine_1d", sensorlock_wrap("sensor", "get_heart_rate")),
   get_linear_acceleration |->
     Refined("refine_3d", sensorlock_wrap("sensor", "get_linear_acceleration")),
   get_magnetic_field |->
     Refined("refine_3d", sensorlock_wrap("sensor", "get_magnetic_field")),
   get_magnetic_field_uncalibrated |->
     Refined("refine_6d", sensorlock_wrap("sensor", "get_magnetic_field_uncalibrated")),
   get_pressure |-> Refined("refine_3d", sensorlock_wrap("sensor", "get_pressure")),
   get_proximity |-> Refined("refine_3d", sensorlock_wrap("sensor", "get_proximity")),
   get_relative_humidity |->
     Refined("refine_1d", sensorlock_wrap("sensor", "get_relative_humidity")),
   get_rotation_vector |->
     Refined("refine_5d", sensorlock_wrap("sensor", "get_rotation_vector")),
   get_step_counter |->
     Refined("refine_1d", sensorlock_wrap("sensor", "get_step_counter")),
   get_light |-> Bound("sensor", "get_light", "sensorlock", "light"),
   microphone_record |-> medialock_wrap("media", "microphone_record"),
   is_media_playing |-> medialock_wrap("media", "is_media_playing"),
   is_tts_speaking |-> medialock_wrap("media", "is_tts_speaking"),
   tts_speak |-> medialock_wrap("media", "tts_speak"),
   get_location |-> sensorlock_wrap("location", "get_location"),
   get_lastknown_location |-> sensorlock_wrap("location", "get_lastknown_location"),
   get_geolocation |-> sensorlock_wrap("location", "get_geolocation"),
   android_log |-> outputlock_wrap("androidlog", "log"),
   toast |-> outputlock_wrap("androidlog", "toast"),
   notify |-> outputlock_wrap("androidlog", "notify"),
   prompt |-> outputlock_wrap("androidlog", "prompt"),
   vibrate |-> Bound("androidlog", "vibrate", "vibratelock", "vibrate")]

PublicNames == DOMAIN BoundCallTable

\* The public functions the caller threads of the model call: one for each way a
\* native binding is bound (lock wrapper alone, lock wrapper and shape adapter,
\* inline locking with scrubbing, get_light, vibrate) under each of the locks.
\* The other entries of the table are bound by the same expressions.
Exercised ==
  { "get_battery_info", "get_acceleration", "get_wifi_connection_info", "get_light",
    "tts_speak", "prompt", "vibrate" }

\* a table in which every wrapper was made from the sensor lock
LockOfSensorOnly(f) == "sensorlock"

\* the lock the public function f acquires
LockOf(f) == BoundCallTable[f].lock

Adapter(f) == BoundCallTable[f].adapter

\* the number of parameters of the public function f: def vibrate(seconds);
\* def call_into_function(), def refined_sensor_function_Nd(), def get_light(),
\* def get_wifi_connection_info(), def get_network_info()
Params(f) == IF Adapter(f) = "vibrate" THEN 1 ELSE 0

\* a range check that leaves out the upper end
DurationBelowMax(seconds) == 0 <= seconds /\ seconds < MAX_VIBRATION_DURATION

\* 0 <= seconds <= MAX_VIBRATION_DURATION
DurationInRange(seconds) == 0 <= seconds /\ seconds <= MAX_VIBRATION_DURATION

\* The names bound in the module's namespace: what it imports, assigns and defines.
ModuleNames ==
  { "threading", "miscinfo", "sensor", "media", "location", "androidlog", "encodings",
    "MAX_VIBRATION_DURATION", "sensorlock", "outputlock", "medialock", "vibratelock",
    "locklist", "_", "sensor_zulu_time", "normalize_sensor_event_time", "wrap_with",
    "refine_1d", "refine_3d", "refine_4d", "refine_5d", "refine_6d",
    "_scrub_string", "_scrub_list", "_scrub_dict", "scrub_unicode_from",
    "sensorlock_wrap", "medialock_wrap", "outputlock_wrap", "vibratelock_wrap" }
  \cup PublicNames

\* The exceptions among Python's built-in names.
BuiltinExceptions ==
  { "Exception", "TypeError", "ValueError", "NameError", "AttributeError",
    "UnicodeDecodeError", "UnicodeEncodeError" }

\* raise name(...): the name is looked up in the module's namespace, then among the
\* built-in names; a name bound in neither raises NameError instead.
RaiseNamed(name) ==
  IF name \in ModuleNames \cup BuiltinExceptions THEN name ELSE "NameError"

(* ---------------------------------------------------------------------- *)
(* Inputs: what callers pass and what the native bindings return           *)
(* ---------------------------------------------------------------------- *)

\* the event time the sensor reports when the module is loaded, for the calls of
\* the threads (the specifications of the pure helpers take every offset)
BootTimes == { MaxMillis \div 2 }

\* the durations vibrate is called with: both ends of the valid range and the
\* first value beyond each
Durations == { 0 - 1, 0, MAX_VIBRATION_DURATION, MAX_VIBRATION_DURATION + 1 }

\* the argument lists a caller passes to the public function f
ArgChoices(f) ==
  IF Adapter(f) = "vibrate" THEN { << d >> : d \in Durations }
  ELSE { << >>, << "message" >> }

\* a native sensor tuple (epochtime, eventtime, reading 1 .. reading n)
SensorTuple(epoch, t, n) == << epoch, t >> \o [i \in 1 .. n |-> 100 + i]

\* a native reply that holds unicode text: {u"ssid": u"caf\xe9"}
SampleInfo ==
  PyDict({ << PyUnicode(<< 115, 115, 105, 100 >>), PyUnicode(<< 99, 97, 102, 233 >>) >> })

\* what the native binding of f may return
NativeResults(f) ==
  CASE Adapter(f) = "raw"       -> { Some("raw") }
    [] Adapter(f) = "refine_1d" -> { None } \cup { Some(SensorTuple(1, t, 1)) : t \in { MaxMillis } }
    [] Adapter(f) = "refine_3d" -> { None } \cup { Some(SensorTuple(1, t, 3)) : t \in { MaxMillis } }
    [] Adapter(f) = "refine_4d" -> { None } \cup { Some(SensorTuple(1, t, 4)) : t \in { MaxMillis } }
    [] Adapter(f) = "refine_5d" -> { None } \cup { Some(SensorTuple(1, t, 5)) : t \in { MaxMillis } }
    [] Adapter(f) = "refine_6d" -> { None } \cup { Some(SensorTuple(1, t, 6)) : t \in { MaxMillis } }
    [] Adapter(f) = "light"     -> { None } \cup { Some(SensorTuple(1, t, 3)) : t \in { MaxMillis } }
    [] Adapter(f) = "scrub"     -> { None, Some(SampleInfo) }
    [] Adapter(f) = "vibrate"   -> { None }

\* what the code after lock.release() makes of the native result r
AdapterOutcomes(f, r) ==
  CASE Adapter(f) = "refine_1d" -> { refine_1d(r) }
    [] Adapter(f) = "refine_3d" -> { refine_3d(r) }
    [] Adapter(f) = "refine_4d" -> { refine_4d(r) }
    [] Adapter(f) = "refine_5d" -> { refine_5d(r) }
    [] Adapter(f) = "refine_6d" -> { refine_6d(r) }
    [] Adapter(f) = "light"     -> { light_illumination(r) }
    [] Adapter(f) = "scrub"     -> scrub_if_not_none(r)

(* ---------------------------------------------------------------------- *)
(* The calls of the caller threads                                         *)
(* ---------------------------------------------------------------------- *)

TypeOK ==
  /\ sensor_zulu_time \in 0 .. MaxMillis
  /\ lock \in [Locks -> BOOLEAN]
  /\ owner \in [Locks -> Threads \cup { 0 }]
  /\ held \in [Threads -> SUBSET Locks]
  /\ pc \in [Threads -> { "idle", "acquire", "native", "release", "reshape", "done", "raised" }]
  /\ fn \in [Threads -> PublicNames \cup { "" }]
  /\ ncalls \in [Threads -> 0 .. 1]

Init ==
  /\ sensor_zulu_time \in BootTimes
  /\ lock = [l \in Locks |-> FALSE]
  /\ owner = [l \in Locks |-> 0]
  /\ held = [t \in Threads |-> {}]
  /\ pc = [t \in Threads |-> "idle"]
  /\ fn = [t \in Threads |-> ""]
  /\ args = [t \in Threads |-> << >>]
  /\ ret = [t \in Threads |-> None]
  /\ result = [t \in Threads |-> None]
  /\ err = [t \in Threads |-> "none"]
  /\ ncalls = [t \in Threads |-> 0]
  /\ nargs = [t \in Threads |-> << >>]
  /\ pin = << >>
  /\ pout = << >>
  /\ pstage = "off"

\* Thread t calls the public function f with the arguments a.  Python checks the
\* number of arguments against the function's parameters; vibrate then checks
\* the duration; a call that passes both goes on to lock.acquire().
Call(t, f, a) ==
  /\ pc[t] = "idle"
  /\ fn' = [fn EXCEPT ![t] = f]
  /\ args' = [args EXCEPT ![t] = a]
  /\ IF Len(a) # Params(f)
     THEN /\ pc' = [pc EXCEPT ![t] = "raised"]
          /\ err' = [err EXCEPT ![t] = "TypeError"]
     ELSE IF Adapter(f) = "vibrate" /\ ~DurationInRange(a[1])
     THEN /\ pc' = [pc EXCEPT ![t] = "raised"]
          /\ err' = [err EXCEPT ![t] = RaiseNamed("RepyArgumentError")]
     ELSE /\ pc' = [pc EXCEPT ![t] = "acquire"]
          /\ err' = err
  /\ UNCHANGED << sensor_zulu_time, lock, owner, held, ret, result, ncalls, nargs, purevars >>

\* an acquire that does not wait for the lock to be free
AcquireWithoutWaiting(t) ==
  /\ pc[t] = "acquire"
  /\ lock' = [lock EXCEPT ![LockOf(fn[t])] = TRUE]
  /\ held' = [held EXCEPT ![t] = @ \cup { LockOf(fn[t]) }]
  /\ pc' = [pc EXCEPT ![t] = "native"]
  /\ UNCHANGED << sensor_zulu_time, owner, fn, args, ret, result, err, ncalls, nargs, purevars >>

\* lock.acquire(): blocks until the lock is unlocked, then locks it
Acquire(t) ==
  /\ pc[t] = "acquire"
  /\ ~lock[LockOf(fn[t])]
  /\ lock' = [lock EXCEPT ![LockOf(fn[t])] = TRUE]
  /\ held' = [held EXCEPT ![t] = @ \cup { LockOf(fn[t]) }]
  /\ pc' = [pc EXCEPT ![t] = "native"]
  /\ UNCHANGED << sensor_zulu_time, owner, fn, args, ret, result, err, ncalls, nargs, purevars >>

\* the arguments the native binding is called with: function() in
\* call_into_function and the inline bodies, androidlog.vibrate(seconds) in vibrate
NativeArgs(f, a) == IF Adapter(f) = "vibrate" THEN a ELSE << >>

\* The native call of thread t returns one of the results it may return.
NativeReturn(t) ==
  /\ pc[t] = "native"
  /\ \E r \in NativeResults(fn[t]) : ret' = [ret EXCEPT ![t] = r]
  /\ ncalls' = [ncalls EXCEPT ![t] = @ + 1]
  /\ nargs' = [nargs EXCEPT ![t] = NativeArgs(fn[t], args[t])]
  /\ pc' = [pc EXCEPT ![t] = "release"]
  /\ UNCHANGED << sensor_zulu_time, lock, owner, held, fn, args, result, err, purevars >>

\* The native call of thread t raises: the exception leaves the public function
\* from the line of the native call, so lock.release() is not reached.
NativeRaise(t) ==
  /\ pc[t] = "native"
  /\ ncalls' = [ncalls EXCEPT ![t] = @ + 1]
  /\ nargs' = [nargs EXCEPT ![t] = NativeArgs(fn[t], args[t])]
  /\ pc' = [pc EXCEPT ![t] = "raised"]
  /\ err' = [err EXCEPT ![t] = "NativeError"]
  /\ UNCHANGED << sensor_zulu_time, lock, owner, held, fn, args, ret, result, purevars >>

\* a release that goes on without unlocking
ReleaseNothing(t) ==
  /\ pc[t] = "release"
  /\ IF Adapter(fn[t]) \in { "raw", "vibrate" }
     THEN /\ pc' = [pc EXCEPT ![t] = "done"]
          /\ result' = [result EXCEPT ![t] = IF Adapter(fn[t]) = "raw" THEN ret[t] ELSE None]
     ELSE /\ pc' = [pc EXCEPT ![t] = "reshape"]
          /\ result' = result
  /\ UNCHANGED << sensor_zulu_time, lock, owner, held, fn, args, ret, err, ncalls, nargs, purevars >>

\* lock.release(), and for the functions that only forward the native result,
\* the return that follows it: `return return_value` in call_into_function,
\* the end of vibrate (which returns None)
Release(t) ==
  /\ pc[t] = "release"
  /\ lock' = [lock EXCEPT ![LockOf(fn[t])] = FALSE]
  /\ held' = [held EXCEPT ![t] = @ \ { LockOf(fn[t]) }]
  /\ IF Adapter(fn[t]) \in { "raw", "vibrate" }
     THEN /\ pc' = [pc EXCEPT ![t] = "done"]
          /\ result' = [result EXCEPT ![t] = IF Adapter(fn[t]) = "raw" THEN ret[t] ELSE None]
     ELSE /\ pc' = [pc EXCEPT ![t] = "reshape"]
          /\ result' = result
  /\ UNCHANGED << sensor_zulu_time, owner, fn, args, ret, err, ncalls, nargs, purevars >>

\* a reshaping step that samples the epoch offset again
ReshapeResampling(t) ==
  /\ pc[t] = "reshape"
  /\ \E o \in AdapterOutcomes(fn[t], ret[t]) :
       IF o.exc = "none"
       THEN /\ pc' = [pc EXCEPT ![t] = "done"]
            /\ result' = [result EXCEPT ![t] = o.val]
            /\ err' = err
       ELSE /\ pc' = [pc EXCEPT ![t] = "raised"]
            /\ result' = result
            /\ err' = [err EXCEPT ![t] = o.exc]
  /\ sensor_zulu_time' =
       IF ret[t] # None /\ Adapter(fn[t]) # "scrub" THEN ret[t][1][2] ELSE sensor_zulu_time
  /\ UNCHANGED << lock, owner, held, fn, args, ret, ncalls, nargs, purevars >>

\* The code that follows lock.release() in the refined sensor functions, get_light,
\* get_wifi_connection_info and get_network_info: reshape or scrub the native
\* result and return it.
Reshape(t) ==
  /\ pc[t] = "reshape"
  /\ \E o \in AdapterOutcomes(fn[t], ret[t]) :
       IF o.exc = "none"
       THEN /\ pc' = [pc EXCEPT ![t] = "done"]
            /\ result' = [result EXCEPT ![t] = o.val]
            /\ err' = err
       ELSE /\ pc' = [pc EXCEPT ![t] = "raised"]
            /\ result' = result
            /\ err' = [err EXCEPT ![t] = o.exc]
  /\ UNCHANGED << sensor_zulu_time, lock, owner, held, fn, args, ret, ncalls, nargs, purevars >>

\* The caller of thread t has the result, or the exception, of its call.
Return(t) ==
  /\ pc[t] \in { "done", "raised" }
  /\ pc' = [pc EXCEPT ![t] = "idle"]
  /\ fn' = [fn EXCEPT ![t] = ""]
  /\ args' = [args EXCEPT ![t] = << >>]
  /\ ret' = [ret EXCEPT ![t] = None]
  /\ result' = [result EXCEPT ![t] = None]
  /\ err' = [err EXCEPT ![t] = "none"]
  /\ ncalls' = [ncalls EXCEPT ![t] = 0]
  /\ nargs' = [nargs EXCEPT ![t] = << >>]
  /\ held' = [held EXCEPT ![t] = {}]
  /\ UNCHANGED << sensor_zulu_time, lock, owner, purevars >>

Next ==
  \E t \in Threads :
    \/ \E f \in Exercised : \E a \in ArgChoices(f) : Call(t, f, a)
    \/ Acquire(t)
    \/ NativeReturn(t)
    \/ NativeRaise(t)
    \/ Release(t)
    \/ Reshape(t)
    \/ Return(t)

Spec == Init /\ [][Next]_vars

(* ---------------------------------------------------------------------- *)
(* Lock domains, as the specification names them                           *)
(* ---------------------------------------------------------------------- *)

\* the lock domain of the native binding the public function f calls: the media
\* module is the media domain, androidlog.vibrate the vibration domain, the rest
\* of androidlog the output domain, and miscinfo, sensor and location the
\* sensors/info domain
Domain(f) ==
  LET b == BoundCallTable[f]
  IN  IF b.module = "media" THEN "media"
      ELSE IF b.module = "androidlog"
           THEN (IF b.native = "vibrate" THEN "vibration" ELSE "output")
           ELSE "sensors"

\* the lock that guards a domain
DomainLock(d) ==
  CASE d = "sensors"   -> "sensorlock"
    [] d = "output"    -> "outputlock"
    [] d = "media"     -> "medialock"
    [] d = "vibration" -> "vibratelock"

Calling(t) == pc[t] # "idle"

\* thread t is between its lock.acquire() and its lock.release()
InNativeBody(t) == pc[t] \in { "native", "release" }

\* the public function of thread t reshapes or scrubs the native result
Adapted(t) == Calling(t) /\ Adapter(fn[t]) \notin { "raw", "vibrate" }

(* ---------------------------------------------------------------------- *)
(* Claims about the calls of concurrent threads (specification Spec)       *)
(* ---------------------------------------------------------------------- *)

\* C1: two threads calling public functions of the same lock domain are never
\* both inside their native-call bodies (between lock.acquire() and
\* lock.release()): at most one thread is inside a native call of a domain.
C1_NativeBodiesOfADomainNeverOverlap ==
  \A t, u \in Threads :
    (t # u /\ InNativeBody(t) /\ InNativeBody(u)) => Domain(fn[t]) # Domain(fn[u])

\* C1 witness: a thread is inside the native call of a domain while another
\* thread, calling into the same domain, waits for the lock.
C1_Witness ==
  \E t, u \in Threads :
    /\ pc[t] = "native"
    /\ pc[u] = "acquire"
    /\ Domain(fn[t]) = Domain(fn[u])

\* C2: a thread that waits to enter a call of domain A can acquire A's lock and
\* enter its native call whenever A's own lock is unlocked, whatever the state
\* of the locks of the other three domains and of the threads that hold or
\* wait for them.
C2_OtherDomainsNeverBlock ==
  \A t \in Threads :
    (pc[t] = "acquire" /\ ~lock[DomainLock(Domain(fn[t]))]) => ENABLED Acquire(t)

\* C2 witness: two threads are inside native calls of two different domains at
\* the same time.
C2_Witness ==
  \E t, u \in Threads :
    /\ pc[t] = "native"
    /\ pc[u] = "native"
    /\ Domain(fn[t]) # Domain(fn[u])

\* thread t called vibrate with a duration d, 0 <= d <= 10
VibrateInRange(t) ==
  /\ Calling(t)
  /\ fn[t] = "vibrate"
  /\ args[t][1] \in 0 .. MAX_VIBRATION_DURATION

\* C3: vibrate(d) with 0 <= d <= 10 (both ends included) signals no argument
\* error, is inside its native call only while it holds the vibration lock, makes
\* exactly one native vibration call (with d), and when that call has returned,
\* returns normally (None) with the vibration lock released by it.
C3_VibrateInRange ==
  \A t \in Threads :
    VibrateInRange(t) =>
      /\ ncalls[t] <= 1
      /\ pc[t] = "raised" => err[t] = "NativeError"
      /\ InNativeBody(t) => (held[t] = { "vibratelock" } /\ lock["vibratelock"])
      /\ pc[t] = "done" =>
           /\ ncalls[t] = 1
           /\ nargs[t] = args[t]
           /\ held[t] = {}
           /\ result[t] = None

\* C3 witness: vibrate(10), the upper end of the range, has returned normally.
C3_Witness ==
  \E t \in Threads :
    /\ VibrateInRange(t)
    /\ args[t][1] = MAX_VIBRATION_DURATION
    /\ pc[t] = "done"

\* C4 (as claimed): a call of vibrate(d) with d outside [0, 10] signals an
\* argument error (RepyArgumentError), makes no native call, acquires no lock
\* and leaves the state of all four locks as it was.
C4_VibrateOutOfRange ==
  [][ \A t \in Threads :
        ( /\ pc[t] = "idle"
          /\ fn'[t] = "vibrate"
          /\ args'[t][1] \notin 0 .. MAX_VIBRATION_DURATION )
        => /\ pc'[t] = "raised"
           /\ err'[t] = "RepyArgumentError"
           /\ ncalls'[t] = 0
           /\ held'[t] = {}
           /\ lock' = lock ]_vars

\* C5 (as claimed): a lock-wrapped public function called with arguments makes
\* one native call with exactly those arguments.
C5_ArgumentsReachTheNativeCall ==
  \A t \in Threads :
    (Calling(t) /\ Adapter(fn[t]) = "raw" /\ pc[t] \in { "done", "raised" })
    => (ncalls[t] = 1 /\ nargs[t] = args[t])

\* C6 (as claimed): the reshaping and scrubbing of the native result happen
\* while the calling thread still holds the domain lock.
C6_ReshapedUnderTheLock ==
  \A t \in Threads : pc[t] = "reshape" => LockOf(fn[t]) \in held[t]

\* C6 (amended): in a public call that reshapes or scrubs its result the order
\* is: lock acquired, native call, lock released, result reshaped or scrubbed,
\* result returned.  The native call is made under the lock; the reshaping and
\* scrubbing happen after the calling thread has released it.
C6_ReshapedAfterRelease ==
  \A t \in Threads :
    Adapted(t) =>
      /\ InNativeBody(t) => (held[t] = { LockOf(fn[t]) } /\ result[t] = None)
      /\ pc[t] = "reshape" => (held[t] = {} /\ ncalls[t] = 1 /\ result[t] = None)
      /\ pc[t] = "done" =>
           (held[t] = {} /\ ncalls[t] = 1 /\ Ok(result[t]) \in AdapterOutcomes(fn[t], ret[t]))

\* C6 witness: a thread reshapes a native result while another thread is already
\* inside a native call under the same lock.
C6_Witness ==
  \E t, u \in Threads :
    /\ pc[t] = "reshape"
    /\ ret[t] # None
    /\ pc[u] = "native"
    /\ LockOf(fn[u]) = LockOf(fn[t])

\* C9: the epoch offset is assigned when the module is loaded and no step of
\* any call, in any interleaving, changes it: it has the same value before and
\* after every step (and the normalizer, which reads nothing else, gives the
\* same result for the same raw timestamp at any two points).
C9_EpochOffsetNeverChanges == [][sensor_zulu_time' = sensor_zulu_time]_vars

\* C9 witness: a refined sensor call has returned a reading whose event time
\* differs from the epoch offset.
C9_Witness ==
  \E t \in Threads :
    /\ pc[t] = "done"
    /\ Adapter(fn[t]) = "refine_3d"
    /\ ret[t] # None
    /\ ret[t][1][2] # sensor_zulu_time
    /\ result[t][1][1] = normalize_sensor_event_time(ret[t][1][2])

\* C11 (as claimed): when a public call has completed, by returning normally or
\* by a failure of the native binding that propagates to the caller, the lock
\* that call acquired is free again: the call no longer holds it.
C11_LockFreeAfterCompletion ==
  \A t \in Threads : pc[t] \in { "done", "raised" } => held[t] = {}

(* ---------------------------------------------------------------------- *)
(* The calls with the history of the locks: which thread locked each lock  *)
(* ---------------------------------------------------------------------- *)

\* lock.acquire(), recording the thread that locked the lock
AcquireOwned(t) ==
  /\ pc[t] = "acquire"
  /\ ~lock[LockOf(fn[t])]
  /\ lock' = [lock EXCEPT ![LockOf(fn[t])] = TRUE]
  /\ owner' = [owner EXCEPT ![LockOf(fn[t])] = t]
  /\ held' = [held EXCEPT ![t] = @ \cup { LockOf(fn[t]) }]
  /\ pc' = [pc EXCEPT ![t] = "native"]
  /\ UNCHANGED << sensor_zulu_time, fn, args, ret, result, err, ncalls, nargs, purevars >>

\* lock.release() (and the return that follows it), recording that the lock is
\* no thread's
ReleaseOwned(t) ==
  /\ pc[t] = "release"
  /\ lock' = [lock EXCEPT ![LockOf(fn[t])] = FALSE]
  /\ owner' = [owner EXCEPT ![LockOf(fn[t])] = 0]
  /\ held' = [held EXCEPT ![t] = @ \ { LockOf(fn[t]) }]
  /\ IF Adapter(fn[t]) \in { "raw", "vibrate" }
     THEN /\ pc' = [pc EXCEPT ![t] = "done"]
          /\ result' = [result EXCEPT ![t] = IF Adapter(fn[t]) = "raw" THEN ret[t] ELSE None]
     ELSE /\ pc' = [pc EXCEPT ![t] = "reshape"]
          /\ result' = result
  /\ UNCHANGED << sensor_zulu_time, fn, args, ret, err, ncalls, nargs, purevars >>

NextOwned ==
  \E t \in Threads :
    \/ \E f \in Exercised : \E a \in ArgChoices(f) : Call(t, f, a)
    \/ AcquireOwned(t)
    \/ NativeReturn(t)
    \/ NativeRaise(t)
    \/ ReleaseOwned(t)
    \/ Reshape(t)
    \/ Return(t)

SpecOwned == Init /\ [][NextOwned]_vars

\* the call of thread t was turned down before its body ran: by Python, for the
\* number of its arguments, or by the range check of vibrate
TurnedDown(t) ==
  \/ Len(args[t]) # Params(fn[t])
  \/ /\ fn[t] = "vibrate"
     /\ args[t][1] \notin 0 .. MAX_VIBRATION_DURATION

\* C12 (as claimed): every invocation of a public function (that was not turned
\* down for its arguments) acquires exactly one lock, the lock of its own
\* domain, makes exactly one native call while it holds that lock, and has
\* released the lock, once, when it completes; a thread that is about to
\* release a lock holds it.
C12_OneLockOneNativeCallOneRelease ==
  \A t \in Threads :
    (Calling(t) /\ ~TurnedDown(t)) =>
      /\ held[t] \subseteq { DomainLock(Domain(fn[t])) }
      /\ InNativeBody(t) => (held[t] = { DomainLock(Domain(fn[t])) } /\ ncalls[t] <= 1)
      /\ pc[t] = "release" => (ncalls[t] = 1 /\ owner[DomainLock(Domain(fn[t]))] = t)
      /\ pc[t] \in { "reshape", "done", "raised" } => (ncalls[t] = 1 /\ held[t] = {})

\* the locks thread t acquired, in its current call or in an earlier one, and has
\* not released
Holding(t) == { l \in Locks : owner[l] = t }

\* thread t waits in lock.acquire() for a lock that is locked
Waiting(t) == pc[t] = "acquire" /\ lock[LockOf(fn[t])]

\* C13 (as claimed): each caller thread holds at most one of the four locks at
\* any time and no thread waits to acquire a lock while it holds another one, so
\* that the callers never all wait on locks held by each other.
C13_AtMostOneLockPerThread ==
  /\ \A t \in Threads : Cardinality(Holding(t)) <= 1
  /\ \A t \in Threads : Waiting(t) => Holding(t) \subseteq { LockOf(fn[t]) }
  /\ ~ \A t \in Threads : Waiting(t) /\ owner[LockOf(fn[t])] # t

\* C15: a shape-adapted sensor call, get_light, get_wifi_connection_info and
\* get_network_info return None exactly when their native call returned None
\* (the native call otherwise returning a tuple of numbers, or a mapping): the
\* call that got None returns it without an exception from reshaping,
\* normalizing or scrubbing, and a call that got data does not return None;
\* the calling thread does not hold the sensor lock when the call returns.
C15_NoneExactlyWhenNativeNone ==
  \A t \in Threads :
    (Adapted(t) /\ ncalls[t] = 1) =>
      /\ pc[t] = "done" =>
           /\ (result[t] = None) <=> (ret[t] = None)
           /\ LockOf(fn[t]) = "sensorlock"
           /\ held[t] = {}
      /\ (pc[t] = "raised" /\ err[t] # "NativeError") => ret[t] # None

\* C15 witness: get_light has returned None after its native call returned None,
\* while another thread's adapted call returned the data it got.
C15_Witness ==
  \E t, u \in Threads :
    /\ fn[t] = "get_light" /\ pc[t] = "done" /\ ncalls[t] = 1
    /\ ret[t] = None /\ result[t] = None
    /\ Adapted(u) /\ pc[u] = "done" /\ ret[u] # None /\ result[u] # None

(* ---------------------------------------------------------------------- *)
(* The calls under the assumptions of the progress claim: every native     *)
(* call returns normally, a waiting thread gets the lock if the lock is    *)
(* free again and again, and a thread that can take its next step takes it *)
(* ---------------------------------------------------------------------- *)

NextReturning ==
  \E t \in Threads :
    \/ \E f \in Exercised : \E a \in ArgChoices(f) : Call(t, f, a)
    \/ Acquire(t)
    \/ NativeReturn(t)
    \/ Release(t)
    \/ Reshape(t)
    \/ Return(t)

\* lock.acquire() is granted to a thread that finds the lock free again and again;
\* the native call returns; the statements after it are run.  The reshaping of
\* a result always ends in a return or an exception, so a thread does not stay
\* in it (this is weak fairness of Reshape(t), which is enabled exactly when
\* pc[t] = "reshape" and leaves that position).
Fairness ==
  \A t \in Threads :
    /\ SF_vars(Acquire(t))
    /\ WF_vars(NativeReturn(t))
    /\ WF_vars(Release(t))
    /\ []<>(pc[t] # "reshape")
    /\ WF_vars(Return(t))

SpecFair == Init /\ [][NextReturning]_vars /\ Fairness

\* C14 (as claimed): a call holds the lock of its domain for the whole of its
\* native call, and, when every native call returns normally and the lock is
\* granted fairly, every invoked public call eventually has acquired its lock,
\* made its native call and returned, with the lock released by it.
C14_HeldThroughAndEventuallyReturns ==
  /\ [](\A t \in Threads :
         InNativeBody(t) => (LockOf(fn[t]) \in held[t] /\ lock[LockOf(fn[t])]))
  /\ \A t \in Threads :
       Calling(t) ~> (pc[t] = "done" /\ ncalls[t] = 1 /\ held[t] = {})

(* ---------------------------------------------------------------------- *)
(* The pure helpers on their own.  No thread is calling: the variables of  *)
(* the calls keep their initial values, pin is the input of the helper     *)
(* and pout what it computed.                                              *)
(* ---------------------------------------------------------------------- *)

NoCalls ==
  /\ lock = [l \in Locks |-> FALSE]
  /\ owner = [l \in Locks |-> 0]
  /\ held = [t \in Threads |-> {}]
  /\ pc = [t \in Threads |-> "idle"]
  /\ fn = [t \in Threads |-> ""]
  /\ args = [t \in Threads |-> << >>]
  /\ ret = [t \in Threads |-> None]
  /\ result = [t \in Threads |-> None]
  /\ err = [t \in Threads |-> "none"]
  /\ ncalls = [t \in Threads |-> 0]
  /\ nargs = [t \in Threads |-> << >>]

(* ---------------------------------------------------------------------- *)
(* The shape adapters (specification SpecRefine)                           *)
(* ---------------------------------------------------------------------- *)

\* the numbers of readings the five adapters unpack
RefineArities == { 1, 3, 4, 5, 6 }

\* the values a reading takes
Readings == { 7, 8 }

\* the adapter for n readings applied to what the sensor function returned
refine_nd(n, returned_tuple) ==
  CASE n = 1 -> refine_1d(returned_tuple)
    [] n = 3 -> refine_3d(returned_tuple)
    [] n = 4 -> refine_4d(returned_tuple)
    [] n = 5 -> refine_5d(returned_tuple)
    [] n = 6 -> refine_6d(returned_tuple)

\* the module is loaded with some epoch offset; the sensor function is about to
\* return a well-formed tuple (epochtime, eventtime, reading 1 .. reading n)
InitRefine ==
  /\ sensor_zulu_time \in 0 .. MaxMillis
  /\ NoCalls
  /\ \E n \in RefineArities, epoch \in { 1, 2 }, t \in { 0, 1, MaxMillis } :
       \E readings \in [1 .. n -> Readings] :
         pin = [n |-> n, tuple |-> << epoch, t >> \o readings]
  /\ pout = << >>
  /\ pstage = "refine_in"

\* refined_sensor_function_Nd(), from the return of sensor_function() on
ApplyRefine ==
  /\ pstage = "refine_in"
  /\ pout' = refine_nd(pin.n, Some(pin.tuple))
  /\ pstage' = "refine_out"
  /\ UNCHANGED << sensor_zulu_time, callvars, pin >>

NextRefine == ApplyRefine

SpecRefine == InitRefine /\ [][NextRefine]_vars

\* C7: given a well-formed native tuple of N fields (epoch, event-time,
\* v1 .. v(N-2)), N in {3, 5, 6, 7, 8}, the adapter returns a list of length
\* N-1 whose first element is normalize_sensor_event_time(event-time) and whose
\* other elements are v1 .. v(N-2), in the same order; the epoch is dropped.
C7_AdapterDropsEpochAndNormalizes ==
  pstage = "refine_out" =>
    LET N == Len(pin.tuple)
    IN  /\ N = pin.n + 2
        /\ pout.exc = "none"
        /\ pout.val # None
        /\ Len(pout.val[1]) = N - 1
        /\ pout.val[1][1] = normalize_sensor_event_time(pin.tuple[2])
        /\ \A i \in 1 .. N - 2 : pout.val[1][i + 1] = pin.tuple[i + 2]

\* C7 witness: the adapter for six readings has reshaped a tuple of eight fields
\* whose event time differs from the epoch offset and whose readings differ.
C7_Witness ==
  /\ pstage = "refine_out"
  /\ pin.n = 6
  /\ Len(pin.tuple) = 8
  /\ pin.tuple[2] # sensor_zulu_time
  /\ pin.tuple[3] # pin.tuple[4]
  /\ Len(pout.val[1]) = 7

(* ---------------------------------------------------------------------- *)
(* The timestamp normalizer (specification SpecNormalize)                  *)
(* ---------------------------------------------------------------------- *)

\* the exponent of the larger of |x| and |y|
FloatLargerExp(x, y) ==
  IF x = FloatZero THEN y.exp
  ELSE IF y = FloatZero THEN x.exp
  ELSE IF x.exp < y.exp THEN y.exp ELSE x.exp

\* |x - y| <= k * 2^(e - (MantBits - 1)), computed exactly: k units in the last
\* place of a float of exponent e
FloatWithin(x, y, k, e) ==
  LET e1   == IF x.exp < y.exp THEN x.exp ELSE y.exp
      emin == IF e < e1 THEN e ELSE e1
      X    == BigShl(x.mant, x.exp - emin)
      Y    == BigShl(y.mant, y.exp - emin)
      dist == IF x.sign # y.sign THEN BigAdd(X, Y)
              ELSE IF BigLess(X, Y) THEN BigSub(Y, X) ELSE BigSub(X, Y)
  IN  ~BigLess(BigShl(BigOf(k), e - emin), BigNorm(dist))

\* the module is loaded with some epoch offset; two raw event times are given
InitNormalize ==
  /\ sensor_zulu_time \in 0 .. MaxMillis
  /\ NoCalls
  /\ pin \in (0 .. MaxMillis) \X (0 .. MaxMillis)
  /\ pout = << >>
  /\ pstage = "normalize_in"

\* normalize_sensor_event_time applied to the two event times and to the epoch
\* offset, the difference of the two normalized times, and (t1 - t2) / 1000.
ApplyNormalize ==
  /\ pstage = "normalize_in"
  /\ pout' = [first  |-> normalize_sensor_event_time(pin[1]),
              second |-> normalize_sensor_event_time(pin[2]),
              offset |-> normalize_sensor_event_time(sensor_zulu_time),
              diff   |-> FloatSub(normalize_sensor_event_time(pin[1]),
                                  normalize_sensor_event_time(pin[2])),
              quot   |-> FloatDiv(pin[1] - pin[2], 1000)]
  /\ pstage' = "normalize_out"
  /\ UNCHANGED << sensor_zulu_time, callvars, pin >>

NextNormalize == ApplyNormalize

SpecNormalize == InitNormalize /\ [][NextNormalize]_vars

\* C8 (as claimed): for all integer millisecond inputs t1, t2,
\* normalize(t1) - normalize(t2) = (t1 - t2) / 1000, and normalize(offset) = 0.
C8_NormalizeIsAffine ==
  pstage = "normalize_out" =>
    /\ pout.diff = pout.quot
    /\ pout.offset = FloatZero

\* C8 (amended): normalize(offset) is 0, and for integer millisecond inputs
\* t1, t2 normalize(t1) - normalize(t2) equals (t1 - t2) / 1000
\* up to floating-point rounding: the two floats differ by at most 3 units in
\* the last place of the larger of |normalize(t1)| and |normalize(t2)| (half a
\* unit for the rounding of each normalized time, and one each for the rounding
\* of the difference and of the quotient, whose units may be twice as large),
\* and are equal when t1 = t2 and when t2 is the offset.
C8_NormalizeIsAffineUpToRounding ==
  pstage = "normalize_out" =>
    /\ pout.offset = FloatZero
    /\ FloatWithin(pout.diff, pout.quot, 3, FloatLargerExp(pout.first, pout.second))
    /\ pin[1] = pin[2] => (pout.diff = FloatZero /\ pout.quot = FloatZero)
    /\ pin[2] = sensor_zulu_time => pout.diff = pout.quot

\* C8 witness: with an offset that is not 0, two event times have been
\* normalized whose difference is not the float nearest to (t1 - t2) / 1000.
C8_Witness ==
  /\ pstage = "normalize_out"
  /\ sensor_zulu_time > 0
  /\ pin[1] # pin[2]
  /\ pout.diff # pout.quot
  /\ pout.offset = FloatZero

(* ---------------------------------------------------------------------- *)
(* The text scrubber (specification SpecScrub)                             *)
(* ---------------------------------------------------------------------- *)

\* values that hold no other value: u"A\xe9", "A", 1
Atoms == { PyUnicode(<< 65, 233 >>), PyStr(<< 65 >>), PyOther(1) }

\* keys of mappings: u"\xe9", u"\xe8" (scrubbed to the same clean key) and the
\* byte string "\xe9"
Keys == << PyUnicode(<< 233 >>), PyUnicode(<< 232 >>), PyStr(<< 233 >>) >>

\* the i-th smallest number of the set c
Nth(c, i) == CHOOSE j \in c : Cardinality({ x \in c : x < j }) = i - 1

RECURSIVE ValuesOfSize(_)

\* the sequences of values that are made of n values in all
RECURSIVE SeqsOfSize(_)
SeqsOfSize(n) ==
  IF n = 0 THEN { << >> }
  ELSE UNION { { << h >> \o q : h \in ValuesOfSize(i), q \in SeqsOfSize(n - i) } : i \in 1 .. n }

\* the mappings made of n values: the mapping and the values under its keys
DictsOfSize(n) ==
  { PyDict({ << Keys[Nth(qc[2], i)], qc[1][i] >> : i \in 1 .. Len(qc[1]) }) :
      qc \in { qc \in SeqsOfSize(n - 1) \X SUBSET (1 .. Len(Keys)) :
                 Cardinality(qc[2]) = Len(qc[1]) } }

\* the values built from text, lists and mappings that are made of n values
ValuesOfSize(n) ==
  (IF n = 1 THEN Atoms ELSE {}) \cup { PyList(q) : q \in SeqsOfSize(n - 1) } \cup DictsOfSize(n)

Values == UNION { ValuesOfSize(n) : n \in 1 .. MaxNodes }

\* a native binding has returned a value
InitScrub ==
  /\ sensor_zulu_time = 0
  /\ NoCalls
  /\ pin \in Values
  /\ pout = << >>
  /\ pstage = "scrub_in"

\* scrub_unicode_from(value)
ScrubOnce ==
  /\ pstage = "scrub_in"
  /\ \E o \in scrub_unicode_from(pin) : pout' = << o >>
  /\ pstage' = "scrub_once"
  /\ UNCHANGED << sensor_zulu_time, callvars, pin >>

\* scrub_unicode_from(scrub_unicode_from(value)): the outer call is made with
\* what the inner call returned, and is not made when the inner call raised
ScrubTwice ==
  /\ pstage = "scrub_once"
  /\ IF pout[1].exc = "none"
     THEN \E o \in scrub_unicode_from(pout[1].val) : pout' = Append(pout, o)
     ELSE pout' = Append(pout, pout[1])
  /\ pstage' = "scrub_twice"
  /\ UNCHANGED << sensor_zulu_time, callvars, pin >>

NextScrub == ScrubOnce \/ ScrubTwice

SpecScrub == InitScrub /\ [][NextScrub]_vars

\* C10: scrub_unicode_from is idempotent: for every value v built from text,
\* lists and key/value mappings, scrub_unicode_from(scrub_unicode_from(v)) is
\* what scrub_unicode_from(v) is: scrubbing the value the first call returned
\* returns an equal value, and raises nothing.
C10_ScrubIsIdempotent ==
  pstage = "scrub_twice" => pout[2] = pout[1]

\* C10 witness: a list that holds a mapping whose two keys collide when scrubbed
\* has been scrubbed twice; the first scrubbing returned a list that holds a
\* mapping with one key, and the second returned the same.
C10_Witness ==
  /\ pstage = "scrub_twice"
  /\ pin.kind = "list"
  /\ Len(pin.items) = 1
  /\ pin.items[1].kind = "dict"
  /\ Cardinality(pin.items[1].pairs) = 2
  /\ pout[1].exc = "none"
  /\ Cardinality(pout[1].val.items[1].pairs) = 1
  /\ pout[2] = pout[1]

\* every key of every mapping in the value v is unicode text
RECURSIVE TextKeyed(_)
TextKeyed(v) ==
  CASE v.kind = "list" -> \A i \in 1 .. Len(v.items) : TextKeyed(v.items[i])
    [] v.kind = "dict" -> \A p \in v.pairs : p[1].kind = "unicode" /\ TextKeyed(p[2])
    [] OTHER -> TRUE

\* w is the text v with "?" in the place of each character outside ASCII
CleanText(v, w) ==
  /\ w = PyStr(w.chars)
  /\ Len(w.chars) = Len(v.chars)
  /\ \A i \in 1 .. Len(v.chars) :
       w.chars[i] = IF v.chars[i] < 128 THEN v.chars[i] ELSE QuestionMark

\* w has the structure of v with every text item cleaned.  With `merging`, the
\* entries of a mapping whose cleaned keys are equal may be one entry of w, which
\* holds the cleaned value of one of them; without it, w has an entry for every
\* entry of v.
RECURSIVE ScrubbedAs(_, _, _)
ScrubbedAs(v, w, merging) ==
  CASE v.kind = "unicode" -> CleanText(v, w)
    [] v.kind = "list" ->
         /\ w = PyList(w.items)
         /\ Len(w.items) = Len(v.items)
         /\ \A i \in 1 .. Len(v.items) : ScrubbedAs(v.items[i], w.items[i], merging)
    [] v.kind = "dict" ->
         /\ w = PyDict(w.pairs)
         /\ \A q, r \in w.pairs : q[1] = r[1] => q = r
         /\ \A p \in v.pairs : \E q \in w.pairs : CleanText(p[1], q[1])
         /\ \A q \in w.pairs : \E p \in v.pairs :
              CleanText(p[1], q[1]) /\ ScrubbedAs(p[2], q[2], merging)
         /\ merging \/ Cardinality(w.pairs) = Cardinality(v.pairs)
    [] OTHER -> w = v

\* C16 (as claimed): for every value built from text, lists and mappings with
\* text keys, scrub_unicode_from returns a value of the same structure in which
\* every text item (keys and nested elements too) has "?" for each character
\* outside ASCII and its ASCII characters unchanged in place; lists keep their
\* length and order, values of other types are returned unchanged, and the
\* input is not modified.
C16_ScrubKeepsStructure ==
  (pstage = "scrub_once" /\ TextKeyed(pin)) =>
    /\ pout[1].exc = "none"
    /\ ScrubbedAs(pin, pout[1].val, FALSE)

\* C16 (amended): as claimed, except that the entries of a mapping whose keys
\* are equal once cleaned become one entry of the result, under the cleaned key
\* and with the cleaned value of one of them.
C16_ScrubKeepsStructureUpToKeyCollisions ==
  (pstage = "scrub_once" /\ TextKeyed(pin)) =>
    /\ pout[1].exc = "none"
    /\ ScrubbedAs(pin, pout[1].val, TRUE)

\* C16 witness: a mapping with two text keys that differ in a non-ASCII character
\* only, one of them over a list, has been scrubbed and a mapping with one entry
\* was returned.
C16_Witness ==
  /\ pstage = "scrub_once"
  /\ TextKeyed(pin)
  /\ pin.kind = "dict"
  /\ Cardinality(pin.pairs) = 2
  /\ \E p \in pin.pairs : p[2].kind = "list" /\ Len(p[2].items) = 1
  /\ pout[1].exc = "none"
  /\ Cardinality(pout[1].val.pairs) = 1

====
